---- MODULE Spec2Model ----
(***************************************************************************)
(* Model of the my_indexer python client: the local Index (document       *)
(* store), its pickle-backed IndexStorage, the Document objects the two   *)
(* share by reference, and IndexerClient, the gateway to the remote       *)
(* service.                                                                *)
(*                                                                         *)
(* Python objects are modelled with identity: a Document is a cell of     *)
(* `heap`, a dict is an insertion-ordered sequence of <<key, value>>      *)
(* pairs whose values are heap references.  The file system is a map from *)
(* normalised absolute paths to file contents.  `op` records the last     *)
(* call made by the caller, its arguments, its return value and the       *)
(* exception class that escaped it ("none" when it returned normally).    *)
(***************************************************************************)
EXTENDS Integers, Sequences, FiniteSets, TLC

VARIABLES heap, stores, fs, dirs, pc, op, lastSave

vars == <<heap, stores, fs, dirs, pc, op, lastSave>>

(***************************************************************************)
(* Bounds                                                                  *)
(***************************************************************************)
MaxObjects == 2
MaxStores == 2
MaxDocs == 2

None == -1
NoError == "none"

FieldMaps == {"A", "B"}
Queries == {"match", "term"}

(***************************************************************************)
(* Python exception classes and isinstance                                 *)
(***************************************************************************)
Bases(cls) ==
    CASE cls = "IndexerError" -> {"Exception"}
      [] cls = "DocumentNotFoundError" -> {"IndexerError", "Exception"}
      [] cls = "IndexerConnectionError" -> {"IndexerError", "Exception"}
      [] cls = "InvalidQueryError" -> {"IndexerError", "Exception"}
      [] cls = "KeyError" -> {"LookupError", "Exception"}
      [] cls = "ValueError" -> {"Exception"}
      [] cls = "OSError" -> {"Exception"}
      [] cls = "EOFError" -> {"Exception"}
      [] cls = "UnpicklingError" -> {"PickleError", "Exception"}
      [] cls = "AttributeError" -> {"Exception"}
      [] cls = "ModuleNotFoundError" -> {"ImportError", "Exception"}
      [] cls = "TypeError" -> {"Exception"}
      [] cls = "ValidationError" -> {"ValueError", "Exception"}
      [] cls = "requests.ConnectionError" ->
             {"requests.RequestException", "OSError", "Exception"}
      [] cls = "requests.HTTPError" ->
             {"requests.RequestException", "OSError", "Exception"}
      [] cls = "requests.TooManyRedirects" ->
             {"requests.RequestException", "OSError", "Exception"}
      [] cls = "requests.JSONDecodeError" ->
             {"requests.RequestException", "OSError", "ValueError", "Exception"}
      [] OTHER -> {}

IsInstance(cls, classes) == (({cls} \cup Bases(cls)) \cap classes) # {}

(***************************************************************************)
(* dict: insertion-ordered sequence of <<key, value>>                      *)
(***************************************************************************)
DictKeys(d) == [n \in 1..Len(d) |-> d[n][1]]

DictValues(d) == [n \in 1..Len(d) |-> d[n][2]]

DictHas(d, k) == \E n \in 1..Len(d) : d[n][1] = k

DictGet(d, k) == d[CHOOSE n \in 1..Len(d) : d[n][1] = k][2]

\* an assignment that never replaces an entry
DictSet_append(d, k, v) == Append(d, <<k, v>>)

DictSet(d, k, v) ==
    IF DictHas(d, k)
    THEN [n \in 1..Len(d) |-> IF d[n][1] = k THEN <<k, v>> ELSE d[n]]
    ELSE Append(d, <<k, v>>)

(***************************************************************************)
(* Document                                                                *)
(***************************************************************************)
Document_init(fields, doc_id) == [fields |-> fields, id |-> doc_id]

\* a __getstate__ that forgets the id
Document_getstate_noid(doc) == [fields |-> doc.fields, id |-> None]

Document_getstate(doc) == [fields |-> doc.fields, id |-> doc.id]

Document_setstate(state) == [fields |-> state.fields, id |-> state.id]

(***************************************************************************)
(* Paths.  A path string is modelled by its '/'-separated segments and     *)
(* whether it starts with '/'.  os.path functions are computed as posixpath*)
(* computes them.                                                          *)
(***************************************************************************)
Cwd == [abs |-> TRUE, segs |-> <<"w">>]

Rel(segs) == [abs |-> FALSE, segs |-> segs]

Paths ==
    { Rel(<<"x.gob">>), Rel(<<"..", "w", "x.gob">>), Rel(<<"d", "x.gob">>),
      Rel(<<"..", "x.gob">>), Rel(<<"x.txt">>), Rel(<<"d", "x.txt">>) }

\* the location the example program uses, relative to the working directory
StorePaths == { Rel(<<"x.gob">>) }

GobNames == {"x.gob"}

endswith_gob(path) ==
    Len(path.segs) > 0 /\ path.segs[Len(path.segs)] \in GobNames

join(a, b) == IF b.abs THEN b ELSE [abs |-> a.abs, segs |-> a.segs \o b.segs]

RECURSIVE NormComps(_, _, _)
NormComps(abs, comps, acc) ==
    IF comps = <<>> THEN acc
    ELSE LET c == Head(comps)
             rest == Tail(comps)
         IN  IF c = "" \/ c = "." THEN NormComps(abs, rest, acc)
             ELSE IF c # ".." \/ (~abs /\ acc = <<>>)
                       \/ (acc # <<>> /\ acc[Len(acc)] = "..")
                  THEN NormComps(abs, rest, Append(acc, c))
                  ELSE IF acc # <<>>
                       THEN NormComps(abs, rest, SubSeq(acc, 1, Len(acc) - 1))
                       ELSE NormComps(abs, rest, acc)

normpath(path) == [abs |-> path.abs, segs |-> NormComps(path.abs, path.segs, <<>>)]

abspath(path) == normpath(join(Cwd, path))

dirname(path) ==
    [abs |-> path.abs,
     segs |-> IF path.segs = <<>> THEN <<>> ELSE SubSeq(path.segs, 1, Len(path.segs) - 1)]

makedirs(directory, existing) ==
    existing \cup { [abs |-> directory.abs, segs |-> SubSeq(directory.segs, 1, n)] :
                        n \in 0..Len(directory.segs) }

StoreFiles == { abspath(p) : p \in StorePaths }

Files == { abspath(p) : p \in { q \in Paths : endswith_gob(q) } }

(***************************************************************************)
(* File contents and pickle                                                *)
(*   kind "absent"   no file                                               *)
(*        "pickle"   a complete pickle of a dict: `entries` are the dict's *)
(*                   <<key, n>> pairs in order, n indexing `objs`, the     *)
(*                   pickled states of the distinct Documents (pickle's    *)
(*                   memo writes an object met twice only once)            *)
(*        "empty"    zero bytes; "partial": a proper prefix of a pickle    *)
(*        other      bytes that are no pickle of this program              *)
(***************************************************************************)
Bytes(kind) == [kind |-> kind, entries |-> <<>>, objs |-> <<>>]

Absent == Bytes("absent")

CorruptKinds == {"garbage", "foreign_class"}

RECURSIVE Uniq(_, _)
Uniq(seq, acc) ==
    IF seq = <<>> THEN acc
    ELSE IF \E n \in 1..Len(acc) : acc[n] = Head(seq)
         THEN Uniq(Tail(seq), acc)
         ELSE Uniq(Tail(seq), Append(acc, Head(seq)))

IndexOf(seq, x) == CHOOSE n \in 1..Len(seq) : seq[n] = x

\* a dump that leaves a file alone that holds more entries than the dict
pickle_dump_keep_longer(data, hp) ==
    IF pc.old.kind = "pickle" /\ Len(pc.old.entries) > Len(data)
    THEN pc.old
    ELSE LET memo == Uniq(DictValues(data), <<>>)
         IN  [kind |-> "pickle",
              entries |-> [n \in 1..Len(data) |->
                              <<data[n][1], IndexOf(memo, data[n][2])>>],
              objs |-> [n \in 1..Len(memo) |-> Document_getstate(hp[memo[n]])]]

pickle_dump(data, hp) ==
    LET memo == Uniq(DictValues(data), <<>>)
    IN  [kind |-> "pickle",
         entries |-> [n \in 1..Len(data) |-> <<data[n][1], IndexOf(memo, data[n][2])>>],
         objs |-> [n \in 1..Len(memo) |-> Document_getstate(hp[memo[n]])]]

\* the exceptions pickle.load can end with on a file of this content
PickleLoadOutcomes(content) ==
    CASE content.kind = "pickle" -> {NoError}
      [] content.kind = "empty" -> {"EOFError"}
      [] content.kind = "partial" -> {"UnpicklingError", "EOFError"}
      [] content.kind = "garbage" -> {"UnpicklingError"}
      [] content.kind = "foreign_class" -> {"ModuleNotFoundError", "AttributeError"}

\* the dict pickle.load builds, its Documents allocated after the cells of hp
pickle_load_data(content, hp) ==
    [n \in 1..Len(content.entries) |->
        <<content.entries[n][1], Len(hp) + content.entries[n][2]>>]

pickle_load_heap(content, hp) ==
    hp \o [n \in 1..Len(content.objs) |-> Document_setstate(content.objs[n])]

(***************************************************************************)
(* IndexStorage                                                            *)
(***************************************************************************)
\* a validation that creates the directory before it checks the path
_validate_path_mkdir_first(path, existing) ==
    LET made == makedirs(dirname(abspath(path)), existing)
    IN  IF ~endswith_gob(path)
        THEN [raised |-> "ValueError", dirs |-> made]
        ELSE [raised |-> NoError, dirs |-> made]

_validate_path(path, existing) ==
    IF ~endswith_gob(path)
    THEN [raised |-> "ValueError", dirs |-> existing]
    ELSE LET abs_path == abspath(path)
         IN  IF normpath(abs_path) # abs_path
             THEN [raised |-> "ValueError", dirs |-> existing]
             ELSE [raised |-> NoError, dirs |-> makedirs(dirname(abs_path), existing)]

exists(path, files) == files[abspath(path)].kind # "absent"

_load_data(index_path, files, hp, outcome) ==
    IF ~exists(index_path, files)
    THEN [raised |-> NoError, data |-> <<>>, heap |-> hp]
    ELSE LET content == files[abspath(index_path)]
         IN  IF outcome = NoError
             THEN [raised |-> NoError,
                   data |-> pickle_load_data(content, hp),
                   heap |-> pickle_load_heap(content, hp)]
             ELSE IF IsInstance(outcome, {"PickleError", "EOFError"})
                  THEN [raised |-> NoError, data |-> <<>>, heap |-> hp]
                  ELSE [raised |-> outcome, data |-> <<>>, heap |-> hp]

\* IndexStorage(index_path): the phase construction reached, what it raised,
\* the directories afterwards and, when it returned, the loaded self.data
IndexStorage_init(index_path, existing, files, hp, outcome) ==
    LET v == _validate_path(index_path, existing)
    IN  IF v.raised # NoError
        THEN [phase |-> "Uninitialized", raised |-> v.raised, dirs |-> v.dirs,
              loads |-> 0, data |-> <<>>, heap |-> hp]
        ELSE LET l == _load_data(index_path, files, hp, outcome)
             IN  [phase |-> IF l.raised = NoError THEN "Loaded" ELSE "Validated",
                  raised |-> l.raised, dirs |-> v.dirs,
                  loads |-> 1, data |-> l.data, heap |-> l.heap]

load_data(storage) == storage.data

(***************************************************************************)
(* Index                                                                   *)
(***************************************************************************)
\* self._documents is the very dict object storage.load_data() returns
Index_init(storage) ==
    [index_path |-> storage.index_path, data |-> load_data(storage),
     fresh |-> (load_data(storage) = <<>>), added |-> <<>>, ids |-> <<>>]

_documents(i) == stores[i].data

\* an allocation that skips an ID
NextId_skip(d) == Len(d) + 1

\* an allocation that hands out the last live ID again
NextId_reuse(d) == IF d = <<>> THEN 0 ELSE Len(d) - 1

\* doc_id = len(self._documents)
NextId(d) == Len(d)

\* a lookup that answers None for an absent ID, as dict.get does
get_document_result_get(d, doc_id) ==
    IF ~DictHas(d, doc_id)
    THEN [raised |-> NoError, ret |-> None]
    ELSE [raised |-> NoError, ret |-> DictGet(d, doc_id)]

get_document_result(d, doc_id) ==
    IF ~DictHas(d, doc_id)
    THEN [raised |-> "KeyError", ret |-> None]
    ELSE [raised |-> NoError, ret |-> DictGet(d, doc_id)]

get_all_documents_result(d) == DictValues(d)

\* the mapping of the store after the caller changed the list returned into
\* lst, were the list the store's own container
after_list_change_shared(d, lst) == [n \in 1..Len(lst) |-> <<n - 1, lst[n]>>]

\* list(...) builds a new list object: the mapping of the store after the
\* caller changed the list returned into lst
after_list_change(d, lst) == d

\* what a caller does to a list: append, remove and reorder
ListChanges(lst, docs) ==
    { Append(lst, doc) : doc \in docs }
        \cup (IF lst = <<>> THEN {} ELSE { Tail(lst), SubSeq(lst, 1, Len(lst) - 1) })
        \cup { [n \in 1..Len(lst) |-> lst[Len(lst) + 1 - n]] }

\* the fixed score 1.0 of the placeholder search
FixedScore == 1

\* a search that matches the query against the documents
search_result_filter(d, query) ==
    IF query = "term" THEN <<>> ELSE [n \in 1..Len(d) |-> <<DictKeys(d)[n], FixedScore>>]

search_result(d, query) == [n \in 1..Len(d) |-> <<DictKeys(d)[n], FixedScore>>]

\* the field content and id of each Document of a list, in order
Contents(refs, hp) == [n \in 1..Len(refs) |-> hp[refs[n]]]

(***************************************************************************)
(* State                                                                   *)
(***************************************************************************)
Idle == [at |-> "idle", store |-> 0, old |-> Absent]

NoSave == [valid |-> FALSE, docs |-> <<>>]

Init ==
    /\ heap = <<>>
    /\ stores = <<>>
    /\ fs = [f \in Files |-> Absent]
    /\ dirs = { [abs |-> TRUE, segs |-> <<>>], Cwd }
    /\ pc = Idle
    /\ op = [name |-> "start"]
    /\ lastSave = [f \in Files |-> NoSave]

StoreIds == 1..Len(stores)

FileOf(i) == abspath(stores[i].index_path)

(***************************************************************************)
(* The caller's operations                                                 *)
(***************************************************************************)
\* doc = Document(fields)
NewDocument(fields) ==
    /\ pc.at = "idle"
    /\ Len(heap) < MaxObjects
    /\ heap' = Append(heap, Document_init(fields, None))
    /\ op' = [name |-> "Document", ret |-> Len(heap) + 1, raised |-> NoError]
    /\ UNCHANGED <<stores, fs, dirs, pc, lastSave>>

\* storage = IndexStorage(path); index = Index(analyzer, storage=storage)
Construct(path) ==
    /\ pc.at = "idle"
    /\ Len(stores) < MaxStores
    /\ \E outcome \in (IF endswith_gob(path) /\ exists(path, fs)
                       THEN PickleLoadOutcomes(fs[abspath(path)]) ELSE {NoError}) :
         LET r == IndexStorage_init(path, dirs, fs, heap, outcome)
         IN  /\ Len(r.heap) <= MaxObjects
             /\ dirs' = r.dirs
             /\ heap' = r.heap
             /\ stores' = IF r.raised = NoError
                          THEN Append(stores, Index_init([index_path |-> path, data |-> r.data]))
                          ELSE stores
             /\ op' = [name |-> "construct", path |-> path, raised |-> r.raised,
                       phase |-> r.phase, loads |-> r.loads, store |-> Len(stores) + 1]
    /\ UNCHANGED <<fs, pc, lastSave>>

add_document(i, doc) ==
    /\ pc.at = "idle"
    /\ Len(_documents(i)) < MaxDocs
    /\ Len(stores[i].added) < MaxDocs
    /\ LET doc_id == NextId(_documents(i))
       IN  /\ heap' = [heap EXCEPT ![doc].id = doc_id]
           /\ stores' = [stores EXCEPT ![i].data = DictSet(@, doc_id, doc),
                                       ![i].added = Append(@, doc),
                                       ![i].ids = Append(@, doc_id)]
           /\ op' = [name |-> "add_document", store |-> i, arg |-> doc,
                     ret |-> doc_id, raised |-> NoError]
    /\ UNCHANGED <<fs, dirs, pc, lastSave>>

get_document(i, doc_id) ==
    /\ pc.at = "idle"
    /\ LET r == get_document_result(_documents(i), doc_id)
       IN  op' = [name |-> "get_document", store |-> i, arg |-> doc_id,
                  ret |-> r.ret, raised |-> r.raised]
    /\ UNCHANGED <<heap, stores, fs, dirs, pc, lastSave>>

get_all_documents(i) ==
    /\ pc.at = "idle"
    /\ op' = [name |-> "get_all_documents", store |-> i,
              ret |-> get_all_documents_result(_documents(i)), raised |-> NoError]
    /\ UNCHANGED <<heap, stores, fs, dirs, pc, lastSave>>

\* docs = index.get_all_documents(); then docs.append(doc), del docs[0],
\* docs.pop(), docs.reverse()
change_returned_list(lst) ==
    /\ pc.at = "idle"
    /\ op.name = "get_all_documents"
    /\ lst \in ListChanges(op.ret, 1..Len(heap))
    /\ lst # op.ret
    /\ stores' = [stores EXCEPT ![op.store].data = after_list_change(@, lst)]
    /\ op' = [name |-> "change_returned_list", store |-> op.store, before |-> op.ret,
              ret |-> lst, raised |-> NoError]
    /\ UNCHANGED <<heap, fs, dirs, pc, lastSave>>

search(i, query) ==
    /\ pc.at = "idle"
    /\ op' = [name |-> "search", store |-> i, arg |-> query,
              ret |-> search_result(_documents(i), query), raised |-> NoError]
    /\ UNCHANGED <<heap, stores, fs, dirs, pc, lastSave>>

(***************************************************************************)
(* Index.save -> IndexStorage.save_data: open(index_path, 'wb') truncates  *)
(* the file, pickle.dump then writes it, the with-block closes it.         *)
(***************************************************************************)
\* open(..., 'wb') succeeded: the file is now empty
save_open(i) ==
    /\ pc.at = "idle"
    /\ pc' = [at |-> "dump", store |-> i, old |-> fs[FileOf(i)]]
    /\ fs' = [fs EXCEPT ![FileOf(i)] = Bytes("empty")]
    /\ lastSave' = [lastSave EXCEPT ![FileOf(i)] = NoSave]
    /\ op' = [name |-> "save_open", store |-> i, raised |-> NoError]
    /\ UNCHANGED <<heap, stores, dirs>>

\* index.storage.load_data()
storage_load_data(i) ==
    /\ pc.at = "idle"
    /\ op' = [name |-> "load_data", store |-> i, ret |-> load_data(stores[i]),
              raised |-> NoError]
    /\ UNCHANGED <<heap, stores, fs, dirs, pc, lastSave>>

\* open(..., 'wb') raised OSError (permission denied): nothing was written
save_open_fails(i) ==
    /\ pc.at = "idle"
    /\ op' = [name |-> "save", store |-> i, raised |-> "OSError"]
    /\ UNCHANGED <<heap, stores, fs, dirs, pc, lastSave>>

\* pickle.dump wrote the whole dict and the file was closed
save_dump(i) ==
    /\ pc.at = "dump" /\ pc.store = i
    /\ fs' = [fs EXCEPT ![FileOf(i)] = pickle_dump(_documents(i), heap)]
    /\ lastSave' = [lastSave EXCEPT ![FileOf(i)] =
                       [valid |-> TRUE,
                        docs |-> Contents(get_all_documents_result(_documents(i)), heap)]]
    /\ pc' = Idle
    /\ op' = [name |-> "save", store |-> i, raised |-> NoError]
    /\ UNCHANGED <<heap, stores, dirs>>

\* a failed write whose error is swallowed
save_dump_fails_silently(i) ==
    /\ pc.at = "dump" /\ pc.store = i
    /\ \E kind \in {"empty", "partial"} : fs' = [fs EXCEPT ![FileOf(i)] = Bytes(kind)]
    /\ pc' = Idle
    /\ op' = [name |-> "save", store |-> i, raised |-> NoError]
    /\ UNCHANGED <<heap, stores, dirs, lastSave>>

\* a write raised OSError (disk full): the file keeps what was written so far
save_dump_fails(i) ==
    /\ pc.at = "dump" /\ pc.store = i
    /\ \E kind \in {"empty", "partial"} : fs' = [fs EXCEPT ![FileOf(i)] = Bytes(kind)]
    /\ pc' = Idle
    /\ op' = [name |-> "save", store |-> i, raised |-> "OSError"]
    /\ UNCHANGED <<heap, stores, dirs, lastSave>>

(***************************************************************************)
(* The environment                                                         *)
(***************************************************************************)
\* the process dies: every object is lost, the files stay as they are; a
\* save that was writing leaves the bytes written so far
Crash ==
    /\ stores # <<>>
    /\ heap' = <<>>
    /\ stores' = <<>>
    /\ pc' = Idle
    /\ IF pc.at = "dump"
       THEN /\ \E kind \in {"empty", "partial"} :
                  fs' = [fs EXCEPT ![FileOf(pc.store)] = Bytes(kind)]
            /\ op' = [name |-> "crash", inSave |-> TRUE, file |-> FileOf(pc.store),
                      old |-> pc.old,
                      new |-> pickle_dump(_documents(pc.store), heap)]
       ELSE /\ fs' = fs
            /\ op' = [name |-> "crash", inSave |-> FALSE]
    /\ UNCHANGED <<dirs, lastSave>>

\* bytes that are no pickle of this program come to be at a location (a
\* damaged or foreign file) while no process has it loaded; a loaded store
\* never reads its file again
CorruptFile(f, kind) ==
    /\ pc.at = "idle"
    /\ stores = <<>>
    /\ fs[f].kind # kind
    /\ fs' = [fs EXCEPT ![f] = Bytes(kind)]
    /\ lastSave' = [lastSave EXCEPT ![f] = NoSave]
    /\ op' = [name |-> "corrupt", file |-> f, raised |-> NoError]
    /\ UNCHANGED <<heap, stores, dirs, pc>>

Next ==
    \/ \E fields \in FieldMaps : NewDocument(fields)
    \/ \E path \in StorePaths : Construct(path)
    \/ \E i \in StoreIds, doc \in 1..Len(heap) : add_document(i, doc)
    \/ \E i \in StoreIds, doc_id \in 0..MaxDocs : get_document(i, doc_id)
    \/ \E i \in StoreIds : get_all_documents(i)
    \/ \E lst \in UNION { [1..n -> 1..MaxObjects] : n \in 0..(MaxDocs + 1) } :
          change_returned_list(lst)
    \/ \E i \in StoreIds, query \in Queries : search(i, query)
    \/ \E i \in StoreIds : storage_load_data(i)
    \/ \E i \in StoreIds : save_open(i)
    \/ \E i \in StoreIds : save_open_fails(i)
    \/ \E i \in StoreIds : save_dump(i)
    \/ \E i \in StoreIds : save_dump_fails(i)
    \/ Crash
    \/ \E f \in StoreFiles, kind \in CorruptKinds : CorruptFile(f, kind)

Spec == Init /\ [][Next]_vars

\* construction over every kind of location, with saves, crashes and damage
NextPaths ==
    \/ \E path \in Paths : Construct(path)
    \/ \E i \in StoreIds : save_open(i)
    \/ \E i \in StoreIds : save_dump(i)
    \/ Crash
    \/ \E f \in Files, kind \in CorruptKinds : CorruptFile(f, kind)

SpecPaths == Init /\ [][NextPaths]_vars

(***************************************************************************)
(* IndexerClient: the gateway to the remote indexer service.  It keeps no  *)
(* state between calls; a call sends requests over the transport and turns *)
(* what the transport does into a return value or an exception.  A message *)
(* (str(e)) is a sequence of words.                                        *)
(***************************************************************************)
\* str.lower() of a word
lower_word(w) ==
    CASE w = "Invalid" -> "invalid"
      [] w = "INVALID" -> "invalid"
      [] w = "Query" -> "query"
      [] w = "QUERY" -> "query"
      [] w = "Error:" -> "error:"
      [] w = "Failed" -> "failed"
      [] w = "Document" -> "document"
      [] w = "Request" -> "request"
      [] w = "Unexpected" -> "unexpected"
      [] w = "Expecting" -> "expecting"
      [] OTHER -> w

lower(msg) == [n \in 1..Len(msg) |-> lower_word(msg[n])]

\* sub in msg
contains(msg, sub) ==
    \E n \in 0..(Len(msg) - Len(sub)) :
        \A k \in 1..Len(sub) : msg[n + k] = sub[k]

\* "invalid query" in str(e).lower()
has_marker(msg) == contains(lower(msg), <<"invalid", "query">>)

\* the text the other side puts into a failure: the reason phrase of a
\* response, the detail of a transport exception
Texts ==
    { <<"refused">>, <<"Invalid", "Query">>, <<"invalid", "query">>,
      <<"INVALID", "query">>, <<"query", "invalid">> }

Statuses == {200, 201, 304, 400, 404, 500}

\* the body of a response: not JSON, a JSON list, JSON objects with no key,
\* with the keys of a Document and with the keys of a SearchResponse
Bodies == {"not_json", "list", "object", "document", "search_response"}

IsJson(body) == body # "not_json"

IsMapping(body) == body \in {"object", "document", "search_response"}

Keys(body) ==
    CASE body = "document" -> {"fields", "id"}
      [] body = "search_response" -> {"took", "timed_out", "hits", "total"}
      [] OTHER -> {}

\* what requests.request(...) does: raises without a response, or returns a
\* response
TransportOutcomes ==
    [kind : {"requests.ConnectionError", "requests.TooManyRedirects"},
     status : {0}, text : Texts, body : {"none"}]
        \cup [kind : {"response"}, status : Statuses, text : Texts, body : Bodies]

Raise(cls, msg) == [raised |-> cls, msg |-> msg, ret |-> None]

Return(value) == [raised |-> NoError, msg |-> <<>>, ret |-> value]

\* Response.raise_for_status raises HTTPError for the 4xx and 5xx statuses
raise_for_status(status) == status >= 400 /\ status < 600

\* the try block of _make_request
_make_request_try(outcome) ==
    IF outcome.kind # "response"
    THEN Raise(outcome.kind, outcome.text)
    ELSE IF raise_for_status(outcome.status)
    THEN Raise("requests.HTTPError", <<"Error:">> \o outcome.text \o <<"for", "url">>)
    ELSE IF ~IsJson(outcome.body)
    THEN Raise("requests.JSONDecodeError", <<"Expecting", "value">>)
    ELSE Return(outcome.body)

\* an except requests.HTTPError clause that knows no status
on_HTTPError_generic(status, msg) ==
    Raise("IndexerError", <<"Request", "failed:">> \o msg)

\* the except requests.HTTPError clause
on_HTTPError(status, msg) ==
    IF status = 404
    THEN Raise("DocumentNotFoundError", <<"Document", "not", "found:">> \o msg)
    ELSE Raise("IndexerError", <<"Request", "failed:">> \o msg)

\* a request as the transport sees it: method, endpoint, the ID in the URL
Request(method, endpoint, doc_id) == <<method, endpoint, doc_id>>

\* the result of the call and the requests it sent
_make_request(method, endpoint, doc_id, outcome) ==
    LET r == _make_request_try(outcome)
        x == IF r.raised = NoError
             THEN r
             ELSE IF IsInstance(r.raised, {"requests.ConnectionError"})
             THEN Raise("IndexerConnectionError",
                        <<"Failed", "to", "connect", "to", "indexer:">> \o r.msg)
             ELSE IF IsInstance(r.raised, {"requests.HTTPError"})
             THEN on_HTTPError(outcome.status, r.msg)
             ELSE IF IsInstance(r.raised, {"Exception"})
             THEN Raise("IndexerError", <<"Unexpected", "error:">> \o r.msg)
             ELSE r
    IN  [raised |-> x.raised, msg |-> x.msg, ret |-> x.ret,
         sent |-> <<Request(method, endpoint, doc_id)>>, inner |-> x.raised]

\* Model(**response) of a pydantic model with these required fields
BaseModel_init(response, required) ==
    IF ~IsMapping(response)
    THEN Raise("TypeError", <<"argument", "after", "**", "must", "be", "a", "mapping">>)
    ELSE IF ~(required \subseteq Keys(response))
    THEN Raise("ValidationError", <<"Field", "required">>)
    ELSE Return(response)

\* what follows _make_request in the caller: the result of `after` in place
\* of the result of the request
Then(r, after) ==
    [raised |-> after.raised, msg |-> after.msg, ret |-> after.ret,
     sent |-> r.sent, inner |-> r.inner]

IndexerClient_index_document(document, outcome) ==
    _make_request("POST", "/_doc", None, outcome)

IndexerClient_get_document(doc_id, outcome) ==
    LET response == _make_request("GET", "/_doc/{doc_id}", doc_id, outcome)
    IN  IF response.raised # NoError
        THEN response
        ELSE Then(response, BaseModel_init(response.ret, {"fields"}))

IndexerClient_search(query, outcome) ==
    LET response == _make_request("POST", "/_search", None, outcome)
        r == IF response.raised # NoError
             THEN response
             ELSE Then(response, BaseModel_init(response.ret, {"took"}))
    IN  IF IsInstance(r.raised, {"IndexerError"}) /\ has_marker(r.msg)
        THEN Then(r, Raise("InvalidQueryError", <<"Invalid", "query:">> \o r.msg))
        ELSE r

IndexerClient_bulk_index(documents, outcome) ==
    _make_request("POST", "/_bulk", None, outcome)

\* the lists of documents a caller passes to bulk_index
DocumentLists == UNION { [1..n -> FieldMaps] : n \in 0..MaxDocs }

GatewayCall(name, arg, outcome, r) ==
    /\ pc.at = "idle"
    /\ op' = [name |-> name, arg |-> arg, outcome |-> outcome, raised |-> r.raised,
              msg |-> r.msg, ret |-> r.ret, sent |-> r.sent, inner |-> r.inner]
    /\ UNCHANGED <<heap, stores, fs, dirs, pc, lastSave>>

call_index_document(document, outcome) ==
    GatewayCall("IndexerClient.index_document", document, outcome,
                IndexerClient_index_document(document, outcome))

call_get_document(doc_id, outcome) ==
    GatewayCall("IndexerClient.get_document", doc_id, outcome,
                IndexerClient_get_document(doc_id, outcome))

call_search(query, outcome) ==
    GatewayCall("IndexerClient.search", query, outcome,
                IndexerClient_search(query, outcome))

call_bulk_index(documents, outcome) ==
    GatewayCall("IndexerClient.bulk_index", documents, outcome,
                IndexerClient_bulk_index(documents, outcome))

NextGateway ==
    \/ \E document \in FieldMaps, outcome \in TransportOutcomes :
          call_index_document(document, outcome)
    \/ \E doc_id \in 0..MaxDocs, outcome \in TransportOutcomes :
          call_get_document(doc_id, outcome)
    \/ \E query \in Queries, outcome \in TransportOutcomes :
          call_search(query, outcome)
    \/ \E documents \in DocumentLists, outcome \in TransportOutcomes :
          call_bulk_index(documents, outcome)

SpecGateway == Init /\ [][NextGateway]_vars

GatewayOps ==
    {"IndexerClient.index_document", "IndexerClient.get_document",
     "IndexerClient.search", "IndexerClient.bulk_index"}

(***************************************************************************)
(* Two threads of one process, each inside Index.add_document on the same  *)
(* store.  The interpreter may switch threads between any two statements   *)
(* of the method; the method takes no lock.  With `lock` the callers wrap  *)
(* each call in one exclusive lock of their own.  While the threads run,   *)
(* pc holds the position of each.                                          *)
(***************************************************************************)
Threads == {1, 2}

\* a thread about to call add_document(doc)
Calling(doc) == [at |-> "call", doc |-> doc, doc_id |-> None]

\* thread t may enter add_document
may_enter(t) == ~pc.lock \/ pc.holder = 0

start_threads(i, doc1, doc2, lock) ==
    /\ pc.at = "idle"
    /\ Len(_documents(i)) < MaxDocs
    /\ pc' = [at |-> "threads", store |-> i, old |-> Absent, lock |-> lock,
              holder |-> 0, base |-> Len(_documents(i)),
              t |-> <<Calling(doc1), Calling(doc2)>>]
    /\ op' = [name |-> "start_threads", store |-> i, raised |-> NoError]
    /\ UNCHANGED <<heap, stores, fs, dirs, lastSave>>

\* doc_id = len(self._documents)
thread_read(t) ==
    /\ pc.at = "threads"
    /\ pc.t[t].at = "call"
    /\ may_enter(t)
    /\ pc' = [pc EXCEPT !.t[t].at = "read",
                        !.t[t].doc_id = NextId(_documents(pc.store)),
                        !.holder = IF pc.lock THEN t ELSE 0]
    /\ op' = [name |-> "thread_read", thread |-> t, raised |-> NoError]
    /\ UNCHANGED <<heap, stores, fs, dirs, lastSave>>

\* doc.id = doc_id
thread_set_id(t) ==
    /\ pc.at = "threads"
    /\ pc.t[t].at = "read"
    /\ heap' = [heap EXCEPT ![pc.t[t].doc].id = pc.t[t].doc_id]
    /\ pc' = [pc EXCEPT !.t[t].at = "assigned"]
    /\ op' = [name |-> "thread_set_id", thread |-> t, raised |-> NoError]
    /\ UNCHANGED <<stores, fs, dirs, lastSave>>

\* self._documents[doc_id] = doc; return doc_id
thread_store(t) ==
    /\ pc.at = "threads"
    /\ pc.t[t].at = "assigned"
    /\ stores' = [stores EXCEPT
                     ![pc.store].data = DictSet(@, pc.t[t].doc_id, pc.t[t].doc),
                     ![pc.store].added = Append(@, pc.t[t].doc),
                     ![pc.store].ids = Append(@, pc.t[t].doc_id)]
    /\ pc' = [pc EXCEPT !.t[t].at = "done", !.holder = 0]
    /\ op' = [name |-> "thread_store", thread |-> t, raised |-> NoError]
    /\ UNCHANGED <<heap, fs, dirs, lastSave>>

\* both calls have returned
threads_join ==
    /\ pc.at = "threads"
    /\ \A t \in Threads : pc.t[t].at = "done"
    /\ pc' = Idle
    /\ op' = [name |-> "threads_join", store |-> pc.store, raised |-> NoError]
    /\ UNCHANGED <<heap, stores, fs, dirs, lastSave>>

NextThreads ==
    \/ \E fields \in FieldMaps : NewDocument(fields)
    \/ \E path \in StorePaths : Construct(path)
    \/ \E i \in StoreIds, doc \in 1..Len(heap) : add_document(i, doc)
    \/ \E i \in StoreIds, doc1, doc2 \in 1..Len(heap), lock \in BOOLEAN :
          start_threads(i, doc1, doc2, lock)
    \/ \E t \in Threads : thread_read(t)
    \/ \E t \in Threads : thread_set_id(t)
    \/ \E t \in Threads : thread_store(t)
    \/ threads_join

SpecThreads == Init /\ [][NextThreads]_vars

(***************************************************************************)
(* The error kinds of the specification, as the code raises them           *)
(***************************************************************************)
\* raise ValueError(...) in _validate_path
InvalidPathError == "ValueError"

\* the OSError of open()/write() that save_data lets through
PersistenceError == "OSError"

\* the exceptions module: IndexerError and its subclasses
IndexerErrors == {"IndexerError"}

(***************************************************************************)
(* Claims                                                                  *)
(***************************************************************************)

\* C1: on a store created empty, the k-th add_document call (from 0) returns
\* k, and get_document(k) afterwards returns the Document passed to call k.
C1_SequentialIds ==
    \A i \in StoreIds :
        stores[i].fresh =>
            /\ stores[i].ids = [k \in 1..Len(stores[i].ids) |-> k - 1]
            /\ \A k \in 1..Len(stores[i].added) :
                   get_document_result(_documents(i), k - 1)
                       = [raised |-> NoError, ret |-> stores[i].added[k]]

C1_Witness ==
    /\ op.name = "get_document"
    /\ op.raised = NoError
    /\ stores[op.store].fresh
    /\ Len(stores[op.store].added) = MaxDocs
    /\ op.arg = MaxDocs - 1
    /\ op.ret = stores[op.store].added[MaxDocs]

\* C2: a store constructed on a location whose file is the complete result
\* of the last save there holds, in get_all_documents order, Documents with
\* the field content and id the saving store's Documents had at that save.
C2_RoundTrip ==
    (op.name = "construct" /\ op.raised = NoError /\ lastSave[abspath(op.path)].valid)
        => Contents(get_all_documents_result(_documents(op.store)), heap)
               = lastSave[abspath(op.path)].docs

C2_Witness ==
    /\ op.name = "construct"
    /\ op.raised = NoError
    /\ lastSave[abspath(op.path)].valid
    /\ Len(_documents(op.store)) = MaxDocs
    /\ op.store = MaxStores

\* C3: in every state each store's keys are exactly 0..n-1 for its n
\* documents and the next ID is n; an add_document step stores under a key
\* that was not live and grows the store by one.
C3_DenseIds ==
    [][ /\ \A i \in 1..Len(stores') :
              LET d == stores'[i].data
              IN  /\ { d[n][1] : n \in 1..Len(d) } = 0..(Len(d) - 1)
                  /\ NextId(d) = Len(d)
        /\ op'.name = "add_document" =>
              /\ ~DictHas(stores[op'.store].data, op'.ret)
              /\ Len(stores'[op'.store].data) = Len(stores[op'.store].data) + 1
              /\ \A n \in 1..Len(stores[op'.store].data) :
                     stores'[op'.store].data[n] = stores[op'.store].data[n]
      ]_vars

C3_Witness ==
    /\ op.name = "add_document"
    /\ ~stores[op.store].fresh
    /\ Len(_documents(op.store)) = MaxDocs
    /\ lastSave[FileOf(op.store)].valid

\* C4: each stored ID k maps to a Document whose id field is k, and no two
\* IDs of a store refer to the same Document.
C4_IdMatchesKey ==
    \A i \in StoreIds :
        LET d == _documents(i)
        IN  \A n \in 1..Len(d) :
                /\ heap[d[n][2]].id = d[n][1]
                /\ \A m \in 1..Len(d) : m # n => d[m][2] # d[n][2]

\* C5: constructing the backend and the store on a location with the right
\* extension raises nothing, and the store is empty unless the file is a
\* complete pickle.
C5_ConstructNeverFails ==
    (op.name = "construct" /\ endswith_gob(op.path))
        => /\ op.raised = NoError
           /\ fs[abspath(op.path)].kind # "pickle" => _documents(op.store) = <<>>

\* the documents a store constructed on a file of this content holds
Loadable(content) ==
    IF content.kind = "pickle"
    THEN [n \in 1..Len(content.entries) |->
             <<content.entries[n][1], content.objs[content.entries[n][2]]>>]
    ELSE <<>>

\* C6: after a crash inside save, a store constructed on the file holds the
\* documents of the file as it was before the save or the documents of the
\* saving store.
C6_SaveAtomic ==
    (op.name = "crash" /\ op.inSave)
        => Loadable(fs[op.file]) \in {Loadable(op.old), Loadable(op.new)}

\* the absolute form of the path is changed by normalization
HasTraversal(path) == normpath(join(Cwd, path)) # join(Cwd, path)

\* C7: constructing the backend on a location with the right extension whose
\* absolute form is changed by normalization fails with InvalidPathError.
C7_TraversalRejected ==
    (op.name = "construct" /\ endswith_gob(op.path) /\ HasTraversal(op.path))
        => op.raised = InvalidPathError

\* C8: a location with a wrong extension fails with InvalidPathError; when
\* validation fails no directory is created, nothing is loaded and no
\* object results; a directory is created or a load made only by a
\* construction whose validation succeeded.
C8_ValidateThenLoad ==
    [][ op'.name = "construct" =>
          /\ ~endswith_gob(op'.path) =>
                 op'.raised = InvalidPathError /\ op'.phase = "Uninitialized"
          /\ op'.phase = "Uninitialized" =>
                 /\ op'.raised = InvalidPathError
                 /\ dirs' = dirs
                 /\ op'.loads = 0
                 /\ stores' = stores /\ heap' = heap /\ fs' = fs
          /\ (dirs' # dirs \/ op'.loads > 0) => op'.phase \in {"Validated", "Loaded"}
          /\ op'.phase = "Loaded" <=> Len(stores') = Len(stores) + 1
      ]_vars

C8_Witness ==
    /\ op.name = "construct"
    /\ op.path = Rel(<<"d", "x.txt">>)
    /\ op.raised = InvalidPathError
    /\ [abs |-> TRUE, segs |-> <<"w", "d">>] \notin dirs

C10_FailedSaveSurfaces ==
    [][ op'.name = "save" =>
          /\ op'.raised = NoError =>
                 fs'[abspath(stores'[op'.store].index_path)]
                     = pickle_dump(stores'[op'.store].data, heap')
          /\ op'.raised # NoError =>
                 op'.raised = PersistenceError /\ stores' = stores /\ heap' = heap
      ]_vars

C10_Witness ==
    /\ op.name = "save"
    /\ op.raised = PersistenceError
    /\ Len(_documents(op.store)) = MaxDocs
    /\ fs[FileOf(op.store)].kind = "partial"

\* the content of file f before the running save, if any, truncated it
BeforeSave(f) ==
    IF pc.at = "dump" /\ f = FileOf(pc.store) THEN pc.old ELSE fs[f]

\* C11: add, get, getAll and search leave every file as it is, and what a
\* store constructed on a location would hold changes only when a save there
\* completes (or the file is replaced from outside): until then it is what
\* the last completed save wrote.
C11_OnlySavePersists ==
    [][ /\ op'.name \in {"Document", "add_document", "get_document",
                         "get_all_documents", "search"} => fs' = fs
        /\ \A f \in Files :
              (pc'.at = "idle" /\ Loadable(fs'[f]) # Loadable(BeforeSave(f)))
                  => \/ op'.name = "save" /\ op'.raised = NoError
                     \/ op'.name = "corrupt"
      ]_vars

\* C12: search returns, whatever the query and the state of the store, one
\* pair (id, 1.0) for each stored ID and nothing else, in ascending order of
\* ID, and changes no store, no Document and no file.
C12_SearchListsAllIds ==
    [][ op'.name = "search" =>
          LET d == stores[op'.store].data
              r == op'.ret
          IN  /\ op'.raised = NoError
              /\ Len(r) = Len(d)
              /\ { r[n][1] : n \in 1..Len(r) } = { d[n][1] : n \in 1..Len(d) }
              /\ \A n \in 1..Len(r) : r[n][2] = FixedScore
              /\ \A m, n \in 1..Len(r) : m < n => r[m][1] < r[n][1]
              /\ stores' = stores /\ heap' = heap /\ fs' = fs
      ]_<<op.name, vars>>

C12_Witness ==
    /\ op.name = "search"
    /\ op.arg = "term"
    /\ ~stores[op.store].fresh
    /\ op.ret = <<<<0, FixedScore>>, <<1, FixedScore>>>>

\* C13: get_all_documents returns the stored Documents in ascending order of
\* ID and changes nothing; appending to, removing from or reordering the
\* list returned changes no store's mapping, no result of a later
\* get_document or get_all_documents and not the ID of the next add.
C13_SnapshotIsCopy ==
    [][ /\ op'.name = "get_all_documents" =>
              LET d == stores[op'.store].data
              IN  /\ Len(op'.ret) = Len(d)
                  /\ \A n \in 1..Len(d) :
                         /\ DictHas(d, n - 1)
                         /\ op'.ret[n] = DictGet(d, n - 1)
                  /\ stores' = stores /\ heap' = heap /\ fs' = fs
        /\ op'.name = "change_returned_list" =>
              /\ Len(stores') = Len(stores)
              /\ \A i \in StoreIds :
                     /\ stores'[i].data = stores[i].data
                     /\ get_all_documents_result(stores'[i].data) = op'.before
                            \/ i # op'.store
                     /\ NextId(stores'[i].data) = NextId(stores[i].data)
                     /\ \A doc_id \in 0..MaxDocs :
                            get_document_result(stores'[i].data, doc_id)
                                = get_document_result(stores[i].data, doc_id)
      ]_vars

C13_Witness ==
    /\ op.name = "change_returned_list"
    /\ Len(op.before) = MaxDocs
    /\ op.ret = <<op.before[2], op.before[1]>>
    /\ op.ret # op.before
    /\ get_all_documents_result(_documents(op.store)) = op.before

\* the last call was a gateway call that the service answered with an
\* error status
AnsweredWithError ==
    /\ op.name \in GatewayOps
    /\ op.outcome.kind = "response"
    /\ raise_for_status(op.outcome.status)

\* C14: the gateway's get_document, when the service answers with status
\* 404, raises DocumentNotFoundError and not the generic IndexerError.
C14_NotFoundOnGet ==
    (/\ op.name = "IndexerClient.get_document"
     /\ op.outcome.kind = "response"
     /\ op.outcome.status = 404)
        => /\ op.raised = "DocumentNotFoundError"
           /\ IsInstance(op.raised, IndexerErrors)

C14_Witness ==
    /\ op.name = "IndexerClient.get_document"
    /\ op.outcome.kind = "response"
    /\ op.outcome.status = 404
    /\ op.outcome.body = "document"
    /\ op.arg = MaxDocs
    /\ op.raised = "DocumentNotFoundError"
    /\ contains(op.msg, <<"Document", "not", "found:">>)

\* C15: the gateway's search, answered with an error status, raises
\* InvalidQueryError when the error message contains "invalid query" in any
\* letter case, and the generic IndexerError, not InvalidQueryError, when
\* it does not.
C15_InvalidQueryMarker ==
    (AnsweredWithError /\ op.name = "IndexerClient.search")
        => IF has_marker(op.outcome.text)
           THEN op.raised = "InvalidQueryError"
           ELSE op.raised = "IndexerError"

\* C16: every gateway operation sends exactly one request per call, and
\* when the transport fails with no response it raises
\* IndexerConnectionError.
C16_OneRequestNoRetry ==
    op.name \in GatewayOps
        => /\ Len(op.sent) = 1
           /\ op.outcome.kind = "requests.ConnectionError"
                  => op.raised = "IndexerConnectionError"

\* C17: whatever the transport does, a 2xx response with a body of the
\* wrong shape included, a failure of a gateway operation is an IndexerError
\* or one of its subclasses.
C17_ClosedTaxonomy ==
    (op.name \in GatewayOps /\ op.raised # NoError)
        => IsInstance(op.raised, IndexerErrors)

\* C18: index_document, search and bulk_index never raise
\* DocumentNotFoundError: an error status, 404 included, is the generic
\* IndexerError (or, for search, InvalidQueryError); get_document raises the
\* generic IndexerError for every error status other than 404.
C18_NotFoundOnlyOnGet ==
    AnsweredWithError
        => IF op.name = "IndexerClient.get_document"
           THEN op.outcome.status # 404 => op.raised = "IndexerError"
           ELSE op.raised \in {"IndexerError", "InvalidQueryError"}

\* C19: search raises InvalidQueryError only in place of a generic
\* IndexerError: a failure of the transport stays IndexerConnectionError
\* even when its message contains "invalid query".
C19_OnlyGenericReclassified ==
    op.name = "IndexerClient.search"
        => /\ op.raised = "InvalidQueryError" => op.inner = "IndexerError"
           /\ op.inner = "IndexerConnectionError" => op.raised = op.inner

\* the threads that have read the document count
HaveRead == { t \in Threads : pc.t[t].at # "call" }

\* the threads whose add_document has returned
Completed == { t \in Threads : pc.t[t].at = "done" }

\* C20: two threads in add_document on one store with no lock: when both
\* have read the count before either has stored, both have the same ID, and
\* once both adds have completed with the same ID the store has grown by
\* one document only, the one stored last; with a lock held around each
\* whole call the two IDs differ and the store grows by two.
C20_UnlockedAddsCollide ==
    pc.at = "threads" =>
        LET d == _documents(pc.store)
            id1 == pc.t[1].doc_id
            id2 == pc.t[2].doc_id
        IN  /\ (\A t \in Threads : pc.t[t].at \in {"read", "assigned"}) => id1 = id2
            /\ (HaveRead = Threads /\ id1 = id2) =>
                   /\ ~pc.lock
                   /\ Completed = Threads =>
                          /\ Len(d) = pc.base + 1
                          /\ Len(d) < pc.base + Cardinality(Completed)
                          /\ DictGet(d, id1) \in {pc.t[1].doc, pc.t[2].doc}
            /\ pc.lock =>
                   /\ HaveRead = Threads => id1 # id2
                   /\ Completed = Threads => Len(d) = pc.base + 2

C20_Witness ==
    /\ pc.at = "threads"
    /\ ~pc.lock
    /\ Completed = Threads
    /\ pc.base = MaxDocs - 1
    /\ pc.t[1].doc_id = pc.t[2].doc_id
    /\ pc.t[1].doc # pc.t[2].doc
    /\ ~DictHas(_documents(pc.store), pc.base + 1)
    /\ DictValues(_documents(pc.store))[pc.base + 1] = pc.t[1].doc

\* the mapping of a store: each ID with the content of its Document
Mapping(d, hp) == [n \in 1..Len(d) |-> <<d[n][1], hp[d[n][2]]>>]

\* C21: a save that completes leaves in the file exactly the mapping the
\* saving store holds at that moment, whatever the file held before, and
\* touches no other file and no store; load_data returns the mapping the
\* store holds in memory and reads nothing from the file.
C21_SaveOverwritesInFull ==
    [][ /\ (op'.name = "save" /\ op'.raised = NoError) =>
              /\ Loadable(fs'[FileOf(op'.store)])
                     = Mapping(stores[op'.store].data, heap)
              /\ \A f \in Files : f # FileOf(op'.store) => fs'[f] = fs[f]
              /\ stores' = stores /\ heap' = heap
        /\ op'.name = "load_data" =>
              /\ op'.ret = stores[op'.store].data
              /\ stores' = stores /\ heap' = heap /\ fs' = fs
      ]_<<op.name, vars>>

\* two stores on one location, both with documents of their own; the one
\* constructed first saves last and the file holds its mapping, not the
\* other's
C21_Witness ==
    /\ op.name = "save"
    /\ op.raised = NoError
    /\ Len(stores) = 2
    /\ op.store = 1
    /\ FileOf(1) = FileOf(2)
    /\ ~stores[2].fresh
    /\ stores[2].added # <<>>
    /\ Len(_documents(2)) > Len(_documents(1))
    /\ Loadable(fs[FileOf(1)]) = Mapping(_documents(1), heap)
    /\ Loadable(fs[FileOf(1)]) # Mapping(_documents(2), heap)
====
